---- MODULE Spec2Model ----
(***************************************************************************)
(* Model of the reddit submission scraper:                                 *)
(*   main.py                       __main__ and main                       *)
(*   modules/comment_scraper.py    GetComments.get_comments                *)
(*   modules/submission_scraper.py GetSubmissions.get_top_submissions,     *)
(*                                 get_all_submissions and                 *)
(*                                 get_updated_submission_information      *)
(*                                                                         *)
(* Specifications:                                                         *)
(*   Spec, LiveSpec  get_comments against any source                       *)
(*   ListingSpec     get_comments against a source that keeps a listing    *)
(*   SubSpec         get_top_submissions with the enrichment               *)
(*   AllSpec         the collection loop of get_all_submissions            *)
(*   MainSpec        a run of __main__                                     *)
(*                                                                         *)
(* A page of comments is kept run-length encoded: a sequence of blocks,    *)
(* each block standing for n records that share one created_utc.           *)
(***************************************************************************)
EXTENDS Integers, Sequences, FiniteSets, TLC

\* ------------------------------------------------------------------------
\* Bounds of the model
MaxParents == 2      \* rows of the DataFrame handed to get_comments
MaxDt      == 2      \* created_utc values of comments are 1..MaxDt
MaxFails   == 2      \* failed attempts of one comment fetch, and of one
                     \* run of get_top_submissions
MaxShards  == 3      \* the source ends a parent's listing by this shard

MaxDays    == 2      \* calendar days between start and end
MaxPerDay  == 2      \* results_per_day, and the submissions a day has
MaxBatches == 2      \* non-empty answers to one run of get_all_submissions
MaxRequests == 5     \* attempts a run started by __main__ is followed for

\* Program constants
Cutoff == 8999       \* comment_scraper.py:153  len(comment_df1) > 8999
DaySeconds == 86400  \* submission_scraper.py:242  end_utc = start_utc + 86400
Limit == 10000       \* comment_scraper.py:125  &limit=10000

\* ------------------------------------------------------------------------
\* The comment search endpoint (environment)

\* full pages of every age, and one short page
RawBlocks ==
  [id : {1}, created_utc : 1..MaxDt, n : {Cutoff + 1}] \cup
  [id : {1}, created_utc : {1}, n : {Cutoff}]

\* a mixed page: Cutoff records of the newest time and a single oldest one
RawMixed ==
  { << [id |-> 1, created_utc |-> MaxDt, n |-> Cutoff],
       [id |-> Cutoff + 1, created_utc |-> 1, n |-> 1] >> }

RawPages == {<< >>} \cup {<<b>> : b \in RawBlocks} \cup RawMixed

\* a body that parses as JSON: with a `data` list, or without one
Responses == [kind : {"data"}, data : RawPages] \cup [kind : {"nodata"}]

\* ------------------------------------------------------------------------
\* Pure helpers of get_comments

RECURSIVE SumN(_)
SumN(s) == IF s = << >> THEN 0 ELSE Head(s).n + SumN(Tail(s))

\* len(DataFrame)
DfLen(d) == SumN(d)

RECURSIVE SeqMin(_)
SeqMin(s) ==
  IF Len(s) = 1 THEN Head(s).dt
  ELSE LET m == SeqMin(Tail(s)) IN IF Head(s).dt < m THEN Head(s).dt ELSE m

RECURSIVE SeqMax(_)
SeqMax(s) ==
  IF Len(s) = 1 THEN Head(s).dt
  ELSE LET m == SeqMax(Tail(s)) IN IF Head(s).dt > m THEN Head(s).dt ELSE m

\* comment_df1['dt'].min()
MinDt_max(d) == SeqMax(d)
MinDt(d) == SeqMin(d)

\* comment_data: one formatted row block per raw block, and the record count
FormatBlock(b) == [comment_id |-> b.id, dt |-> b.created_utc, n |-> b.n]

comment_data(request) ==
  [df  |-> [i \in 1..Len(request.data) |-> FormatBlock(request.data[i])],
   num |-> SumN(request.data)]

\* request.get('data') is None: the for loop of comment_data raises TypeError
HasData(request) == request.kind = "data"

\* if len(comment_df1) > 8999
MoreToFetch_9000(d) == DfLen(d) > Cutoff + 1
MoreToFetch_nonempty(d) == d # << >>
MoreToFetch(d) == DfLen(d) > Cutoff

\* comment_df2.equals(comment_df1)
Equals_never(d2, d1) == FALSE
Equals(d2, d1) == d2 = d1

\* comment_df1 = pd.DataFrame() after a duplicate page
AfterDuplicate_keep(d1) == d1
AfterDuplicate(d1) == << >>

\* file_number += 1
NextFileNumber_same(n) == n
NextFileNumber(n) == n + 1

\* str(file_number).zfill(2)
Zfill2(n) == IF n < 10 THEN <<0, n>> ELSE <<n \div 10, n % 10>>

\* Path(f'./data/comment_data/{year}/{month}/{day}')
CommentPath(r) == r.date

\* f'{comment_path}/{row.id}_comments_{NN}.csv'
ShardFile(r, n) == [dir |-> CommentPath(r), id |-> r.id, nn |-> Zfill2(n)]

\* the url of a comment search: link_id and the optional before bound
FirstUrl(r) == [link_id |-> r.id, before |-> << >>]
NextUrl(r, d) == [link_id |-> r.id, before |-> <<MinDt(d)>>]

\* ------------------------------------------------------------------------
\* State of get_comments

VARIABLES
  df,               \* the DataFrame argument: rows with id and date
  pc,               \* position in get_comments
  row,              \* index of the row of df.itertuples() being processed
  url,              \* the url of the current request
  comment_counter,
  file_number,
  comment_df1,
  dirs,             \* directories that exist
  files,            \* the shard files on disk
  retry_log,        \* 'Retrying in 10 seconds...' lines printed for this url
  raised,           \* the exception that left get_comments, or "none"
  \* history of the row being processed
  fails,            \* failed attempts the network produced for this url
  queries,          \* the `before` part of every url built for this row
  fetched,          \* the pages parsed for this row, in order
  written,          \* the shard writes of this row, in order
  counted_before,   \* comment_counter when this row began
  fs_error,         \* the filesystem call that raised: "mkdir", "to_csv"
  store             \* the comments the source holds, when it is a listing

VARIABLES
  start_day,        \* start and end of get_top_submissions, in whole days
  end_day,
  sub_pc,           \* position in get_top_submissions
  date,             \* the day of pd.date_range being queried
  sub_url,          \* the url of the current submission search
  top_df,           \* the accumulator df: rows with their index label
  submission_information,
  submission_data,  \* the records written to submission_data.json
  sub_retry_log,    \* retry lines printed by get_top_submissions so far
  sub_raised,       \* the exception that left get_top_submissions
  sub_fails,        \* attempts that have failed so far
  sub_queries,      \* the searches that were answered, in order
  last_sleep,       \* the time.sleep since the last search: 0 for none
  start_timestamp,  \* the cursor and the end of get_all_submissions
  end_timestamp

VARIABLES
  main_pc,          \* position in __main__ and main()
  main_out,         \* what __main__ printed last
  budget            \* network attempts a run started by __main__ has left

svars == <<start_day, end_day, sub_pc, date, sub_url, top_df,
           submission_information, submission_data, sub_retry_log,
           sub_raised, sub_fails, sub_queries, last_sleep,
           start_timestamp, end_timestamp>>

mvars == <<main_pc, main_out>>

cvars == <<df, pc, row, url, comment_counter, file_number, comment_df1, dirs,
           files, retry_log, raised, fails, queries, fetched, written,
           counted_before, fs_error, store>>

vars == <<cvars, svars, mvars, budget>>

\* the rows handed to get_comments: distinct ids, two submissions a day
RowsOfLen(k) == [i \in 1..k |-> [id |-> i, date |-> (i + 1) \div 2]]

Inputs == {RowsOfLen(k) : k \in 0..MaxParents}

NoUrl == [link_id |-> 0, before |-> << >>]

\* the locals of the submission functions before their first statement
SubLocals ==
  /\ date = 0
  /\ sub_url = << >>
  /\ top_df = << >>
  /\ submission_information = << >>
  /\ submission_data = << >>
  /\ sub_retry_log = 0
  /\ sub_raised = "none"
  /\ sub_fails = 0
  /\ sub_queries = << >>
  /\ last_sleep = 0
  /\ start_timestamp = 0
  /\ end_timestamp = 0

SubIdle ==
  /\ SubLocals
  /\ start_day = 0
  /\ end_day = 0
  /\ sub_pc = "idle"

\* __main__ not running: the function under study is called directly
NoBudget == 0 - 1

MainIdle ==
  /\ main_pc = "idle"
  /\ main_out = "none"
  /\ budget = NoBudget

\* one attempt at a block the code retries; a run started by __main__ is
\* followed for as many attempts as its budget holds
Attempt ==
  IF budget = NoBudget
    THEN budget' = budget
    ELSE budget > 0 /\ budget' = budget - 1

\* the locals of get_comments before its first statement
CommentLocals ==
  /\ row = 0
  /\ url = NoUrl
  /\ comment_counter = 0
  /\ file_number = 0
  /\ comment_df1 = << >>
  /\ retry_log = 0
  /\ raised = "none"
  /\ fails = 0
  /\ queries = << >>
  /\ fetched = << >>
  /\ written = << >>
  /\ counted_before = 0
  /\ fs_error = "none"

\* ./data/comment_data when the run begins: empty, or holding the first
\* shard of the first submission from an earlier run
Disks ==
  {[dirs |-> {}, files |-> {}],
   [dirs |-> {CommentPath(RowsOfLen(1)[1])},
    files |-> {ShardFile(RowsOfLen(1)[1], 1)}]}

Init ==
  /\ SubIdle
  /\ MainIdle
  /\ CommentLocals
  /\ df \in Inputs
  /\ pc = "start"
  /\ \E disk \in Disks : dirs = disk.dirs /\ files = disk.files
  /\ store = << >>

\* lines 120-125: the next row of df.itertuples() and its first url
StartRow(i, counted) ==
  /\ row' = i
  /\ url' = FirstUrl(df[i])
  /\ pc' = "first_request"
  /\ retry_log' = 0
  /\ fails' = 0
  /\ queries' = <<FirstUrl(df[i]).before>>
  /\ fetched' = << >>
  /\ written' = << >>
  /\ counted_before' = counted

\* lines 116-125
Begin ==
  /\ UNCHANGED <<svars, mvars, budget>>
  /\ pc = "start"
  /\ comment_counter' = 0
  /\ IF Len(df) = 0
       THEN /\ pc' = "returned"
            /\ UNCHANGED <<row, url, retry_log, fails, queries, fetched,
                           written, counted_before>>
       ELSE StartRow(1, 0)
  /\ UNCHANGED <<store, fs_error, df, file_number, comment_df1, dirs, files, raised>>

\* lines 150-156 and 190-191: the head of the paging loop
LoopHead(d1) ==
  IF MoreToFetch(d1)
    THEN /\ pc' = "next_request"
         /\ url' = NextUrl(df[row], d1)
         /\ queries' = Append(queries, NextUrl(df[row], d1).before)
         /\ retry_log' = 0
         /\ fails' = 0
    ELSE /\ pc' = "row_done"
         /\ UNCHANGED <<url, queries, retry_log, fails>>

\* the source ends every listing: shard MaxShards is never a full page
SourceBound(d, n) == MoreToFetch(d) => n < MaxShards

\* lines 127-133: requests.get(url).json() raises
FirstRequestFail_counts ==
  /\ UNCHANGED <<svars, mvars>>
  /\ Attempt
  /\ pc = "first_request"
  /\ fails < MaxFails
  /\ fails' = fails + 1
  /\ retry_log' = retry_log + 1
  /\ comment_counter' = comment_counter + 1
  /\ UNCHANGED <<store, fs_error, counted_before, df, pc, row, url, file_number,
                 comment_df1, dirs,
                 files, raised, queries, fetched, written>>

FirstRequestFail ==
  /\ UNCHANGED <<svars, mvars>>
  /\ Attempt
  /\ pc = "first_request"
  /\ fails < MaxFails
  /\ fails' = fails + 1
  /\ retry_log' = retry_log + 1
  /\ UNCHANGED <<store, fs_error, counted_before, df, pc, row, url, comment_counter,
                 file_number, comment_df1,
                 dirs, files, raised, queries, fetched, written>>

\* lines 129-140: the request succeeds, comment_path.mkdir raises
FirstRequestMkdirFail ==
  /\ UNCHANGED <<svars, mvars>>
  /\ Attempt
  /\ pc = "first_request"
  /\ CommentPath(df[row]) \notin dirs
  /\ file_number' = 1
  /\ fs_error' = "mkdir"
  /\ raised' = "OSError"
  /\ pc' = "raised"
  /\ UNCHANGED <<store, counted_before, df, row, url, comment_counter,
                 comment_df1, dirs, files,
                 retry_log, fails, queries, fetched, written>>

\* lines 129-142: the body has no `data`, comment_data raises TypeError
FirstRequestNoData(request) ==
  /\ UNCHANGED <<svars, mvars>>
  /\ Attempt
  /\ pc = "first_request"
  /\ ~HasData(request)
  /\ file_number' = 1
  /\ dirs' = dirs \cup {CommentPath(df[row])}
  /\ raised' = "TypeError"
  /\ pc' = "raised"
  /\ UNCHANGED <<store, fs_error, counted_before, df, row, url, comment_counter,
                 comment_df1, files,
                 retry_log, fails, queries, fetched, written>>

\* lines 129-148: the page is parsed and counted, to_csv raises
FirstRequestWriteFail(request) ==
  /\ UNCHANGED <<svars, mvars>>
  /\ Attempt
  /\ pc = "first_request"
  /\ HasData(request)
  /\ LET cd == comment_data(request) IN
       /\ file_number' = 1
       /\ dirs' = dirs \cup {CommentPath(df[row])}
       /\ comment_counter' = comment_counter + cd.num
       /\ comment_df1' = cd.df
       /\ fetched' = Append(fetched, cd.df)
  /\ fs_error' = "to_csv"
  /\ raised' = "OSError"
  /\ pc' = "raised"
  /\ UNCHANGED <<store, counted_before, df, row, url, files, retry_log, fails,
                 queries, written>>

\* lines 129-156: the first page is parsed, counted and written as shard 1
FirstRequestOk(request) ==
  /\ UNCHANGED <<svars, mvars>>
  /\ Attempt
  /\ pc = "first_request"
  /\ HasData(request)
  /\ LET cd == comment_data(request)
         f  == ShardFile(df[row], 1)
     IN
       /\ SourceBound(cd.df, 1)
       /\ file_number' = 1
       /\ dirs' = dirs \cup {CommentPath(df[row])}
       /\ comment_counter' = comment_counter + cd.num
       /\ comment_df1' = cd.df
       /\ files' = files \cup {f}
       /\ fetched' = Append(fetched, cd.df)
       /\ written' = Append(written, [file |-> f, n |-> 1, data |-> cd.df])
       /\ LoopHead(cd.df)
  /\ UNCHANGED <<store, fs_error, counted_before, df, row, raised>>

\* lines 157-163: requests.get(url).json() raises
NextRequestFail ==
  /\ UNCHANGED <<svars, mvars>>
  /\ Attempt
  /\ pc = "next_request"
  /\ fails < MaxFails
  /\ fails' = fails + 1
  /\ retry_log' = retry_log + 1
  /\ UNCHANGED <<store, fs_error, counted_before, df, pc, row, url, comment_counter,
                 file_number, comment_df1,
                 dirs, files, raised, queries, fetched, written>>

\* lines 159-166: the body has no `data`, comment_data raises TypeError
NextRequestNoData(request) ==
  /\ UNCHANGED <<svars, mvars>>
  /\ Attempt
  /\ pc = "next_request"
  /\ ~HasData(request)
  /\ raised' = "TypeError"
  /\ pc' = "raised"
  /\ UNCHANGED <<store, fs_error, counted_before, df, row, url, comment_counter,
                 file_number, comment_df1, dirs, files, retry_log, fails,
                 queries, fetched, written>>

\* lines 159-178: a new non-empty page is counted, to_csv raises
NextRequestWriteFail_retried(request) ==
  /\ UNCHANGED <<svars, mvars>>
  /\ Attempt
  /\ pc = "next_request"
  /\ HasData(request)
  /\ fails < MaxFails
  /\ LET cd == comment_data(request) IN
       /\ ~Equals(cd.df, comment_df1)
       /\ cd.df # << >>
  /\ fs_error' = "to_csv"
  /\ fails' = fails + 1
  /\ retry_log' = retry_log + 1
  /\ UNCHANGED <<store, counted_before, df, pc, row, url, comment_counter,
                 file_number, comment_df1, dirs, files, raised, queries,
                 fetched, written>>

NextRequestWriteFail(request) ==
  /\ UNCHANGED <<svars, mvars>>
  /\ Attempt
  /\ pc = "next_request"
  /\ HasData(request)
  /\ LET cd == comment_data(request) IN
       /\ ~Equals(cd.df, comment_df1)
       /\ cd.df # << >>
       /\ comment_counter' = comment_counter + cd.num
       /\ file_number' = NextFileNumber(file_number)
       /\ fetched' = Append(fetched, cd.df)
  /\ fs_error' = "to_csv"
  /\ raised' = "OSError"
  /\ pc' = "raised"
  /\ UNCHANGED <<store, counted_before, df, row, url, comment_df1, dirs, files,
                 retry_log, fails, queries, written>>

\* lines 159-191: a follow-up page is parsed and counted; it is written as
\* the next shard unless it is empty or equal to the previous page
NextRequestOk(request) ==
  /\ UNCHANGED <<svars, mvars>>
  /\ Attempt
  /\ pc = "next_request"
  /\ HasData(request)
  /\ LET cd == comment_data(request)
         d2 == cd.df
         f  == ShardFile(df[row], NextFileNumber(file_number))
     IN
       /\ comment_counter' = comment_counter + cd.num
       /\ fetched' = Append(fetched, d2)
       /\ IF ~Equals(d2, comment_df1)
            THEN IF d2 # << >>
                   THEN /\ SourceBound(d2, NextFileNumber(file_number))
                        /\ file_number' = NextFileNumber(file_number)
                        /\ files' = files \cup {f}
                        /\ written' = Append(written,
                             [file |-> f, n |-> NextFileNumber(file_number),
                              data |-> d2])
                        /\ comment_df1' = d2
                        /\ LoopHead(d2)
                   ELSE /\ comment_df1' = d2
                        /\ UNCHANGED <<file_number, files, written>>
                        /\ LoopHead(d2)
            ELSE /\ comment_df1' = AfterDuplicate(comment_df1)
                 /\ UNCHANGED <<file_number, files, written>>
                 /\ LoopHead(AfterDuplicate(comment_df1))
  /\ UNCHANGED <<store, fs_error, counted_before, df, row, dirs, raised>>

\* line 193 and the next turn of the for loop, or line 195
NextRow ==
  /\ UNCHANGED <<svars, mvars, budget>>
  /\ pc = "row_done"
  /\ IF row < Len(df)
       THEN StartRow(row + 1, comment_counter)
       ELSE /\ pc' = "returned"
            /\ UNCHANGED <<row, url, retry_log, fails, queries, fetched,
                           written, counted_before>>
  /\ UNCHANGED <<store, fs_error, df, comment_counter, file_number, comment_df1, dirs, files,
                 raised>>

Next ==
  \/ Begin
  \/ FirstRequestFail
  \/ FirstRequestMkdirFail
  \/ \E request \in Responses : FirstRequestNoData(request)
  \/ \E request \in Responses : FirstRequestWriteFail(request)
  \/ \E request \in Responses : FirstRequestOk(request)
  \/ NextRequestFail
  \/ \E request \in Responses : NextRequestNoData(request)
  \/ \E request \in Responses : NextRequestWriteFail(request)
  \/ \E request \in Responses : NextRequestOk(request)
  \/ NextRow

Spec == Init /\ [][Next]_vars

\* ------------------------------------------------------------------------
\* get_top_submissions and get_updated_submission_information

\* date.replace(tzinfo=timezone.utc).timestamp()
StartUtc(d) == d * DaySeconds

\* what a submission search of day d may return in `data`: the first k
\* submissions of that day in the order of the sort key, k at most
\* results_per_day
DayResults(d) ==
  {[i \in 1..k |->
      [id |-> (d - 1) * MaxPerDay + i, created_utc |-> StartUtc(d)]] :
     k \in 0..MaxPerDay}

\* a search that was answered: its url, the records it got, and whether the
\* attempt it belongs to ran to its end
Answered(u, data, ok) == [url |-> u, data |-> data, ok |-> ok]

\* lines 246-250
DayUrl(d) ==
  [after |-> StartUtc(d), before |-> StartUtc(d) + DaySeconds,
   limit |-> MaxPerDay]

\* pd.DataFrame(data['data']): the rows are labelled 0, 1, ..
TempDf(data) ==
  [i \in 1..Len(data) |->
     [label |-> i - 1, id |-> data[i].id, created_utc |-> data[i].created_utc]]

\* pd.concat([df, temp_df]): the labels of both frames are kept
Concat(acc, temp) == acc \o temp

\* the score and the upvote ratio reddit holds for a submission (environment)
RedditScore(id) == 100 + id
RedditRatio(id) == 50 + id

\* lines 51-56: one lookup
Lookup(r) ==
  [id |-> r.id, score |-> RedditScore(r.id),
   upvote_ratio |-> RedditRatio(r.id)]

\* lines 50-56 for the rows 1..k of the frame
Lookups(frame, k) == [i \in 1..k |-> Lookup(frame[i])]

\* line 46 and the retry of lines 48-60: what the list holds when an
\* attempt begins
KeptOnRetry(info) == info

\* lines 62-65: supplemental is labelled 0, 1, .. and its columns are
\* aligned with df on the label
Merge(frame, info) ==
  [i \in 1..Len(frame) |->
     LET at == frame[i].label + 1 IN
     [label        |-> frame[i].label,
      id           |-> frame[i].id,
      created_utc  |-> frame[i].created_utc,
      score        |-> IF at <= Len(info) THEN info[at].score ELSE -1,
      upvote_ratio |-> IF at <= Len(info) THEN info[at].upvote_ratio
                       ELSE -1]]

\* get_comments not running
CommentIdle ==
  /\ CommentLocals
  /\ df = << >>
  /\ pc = "idle"
  /\ dirs = {}
  /\ files = {}
  /\ store = << >>

SubInit ==
  /\ CommentIdle
  /\ MainIdle
  /\ SubLocals
  /\ start_day = 1
  /\ end_day \in 2..(1 + MaxDays)
  /\ sub_pc = "start"

\* lines 269-301 up to the enrichment, and lines 39-46
AfterDays(frame) ==
  IF frame = << >>
    THEN /\ sub_pc' = "raised"
         /\ sub_raised' = "KeyError"
         /\ UNCHANGED <<date, sub_url>>
    ELSE /\ sub_pc' = "enrich"
         /\ UNCHANGED <<date, sub_url, sub_raised>>

\* lines 240-250: the next day of pd.date_range(start, end, inclusive='left')
ToDay_inclusive(d, frame) ==
  IF d <= end_day
    THEN /\ date' = d
         /\ sub_url' = DayUrl(d)
         /\ sub_pc' = "day_request"
         /\ UNCHANGED sub_raised
    ELSE AfterDays(frame)

ToDay(d, frame) ==
  IF d < end_day
    THEN /\ date' = d
         /\ sub_url' = DayUrl(d)
         /\ sub_pc' = "day_request"
         /\ UNCHANGED sub_raised
    ELSE AfterDays(frame)

\* lines 227-250
SubBegin ==
  /\ sub_pc = "start"
  /\ ToDay(start_day, top_df)
  /\ UNCHANGED <<sub_queries, last_sleep>>
  /\ UNCHANGED <<start_timestamp, end_timestamp, start_day, end_day, top_df, submission_information,
                 submission_data, sub_retry_log, sub_fails>>
  /\ UNCHANGED <<cvars, mvars, budget>>

\* lines 252-254 raise (the request, .json() or data['data']); 265-267
DayRequestFail ==
  /\ sub_pc = "day_request"
  /\ sub_fails < MaxFails
  /\ sub_fails' = sub_fails + 1
  /\ sub_retry_log' = sub_retry_log + 1
  /\ last_sleep' = 10
  /\ UNCHANGED sub_queries
  /\ UNCHANGED <<start_timestamp, end_timestamp, start_day, end_day, sub_pc, date, sub_url, top_df,
                 submission_information, submission_data, sub_raised>>
  /\ UNCHANGED <<cvars, mvars>>
  /\ Attempt

\* lines 252-257, then bar.update or time.sleep raises; 265-267
DayAppendFail(data) ==
  /\ sub_pc = "day_request"
  /\ sub_fails < MaxFails
  /\ data # << >>
  /\ top_df' = Concat(top_df, TempDf(data))
  /\ sub_fails' = sub_fails + 1
  /\ sub_retry_log' = sub_retry_log + 1
  /\ sub_queries' = Append(sub_queries, Answered(sub_url, data, FALSE))
  /\ last_sleep' = 10
  /\ UNCHANGED <<start_timestamp, end_timestamp, start_day, end_day, sub_pc, date, sub_url,
                 submission_information, submission_data, sub_raised>>
  /\ UNCHANGED <<cvars, mvars>>
  /\ Attempt

\* lines 252-259: no record for the day, break
DayEmpty_retried ==
  /\ sub_pc = "day_request"
  /\ sub_fails < MaxFails
  /\ sub_fails' = sub_fails + 1
  /\ sub_retry_log' = sub_retry_log + 1
  /\ sub_queries' = Append(sub_queries, Answered(sub_url, << >>, FALSE))
  /\ last_sleep' = 10
  /\ UNCHANGED <<start_timestamp, end_timestamp, start_day, end_day, sub_pc,
                 date, sub_url, top_df, submission_information,
                 submission_data, sub_raised>>
  /\ UNCHANGED <<cvars, mvars>>
  /\ Attempt

DayEmpty ==
  /\ sub_pc = "day_request"
  /\ ToDay(date + 1, top_df)
  /\ sub_queries' = Append(sub_queries, Answered(sub_url, << >>, TRUE))
  /\ last_sleep' = 0
  /\ UNCHANGED <<start_timestamp, end_timestamp, start_day, end_day, top_df, submission_information,
                 submission_data, sub_retry_log, sub_fails>>
  /\ UNCHANGED <<cvars, mvars>>
  /\ Attempt

\* lines 252-264: the records of the day are appended
DayOk(data) ==
  /\ sub_pc = "day_request"
  /\ data # << >>
  /\ top_df' = Concat(top_df, TempDf(data))
  /\ ToDay(date + 1, Concat(top_df, TempDf(data)))
  /\ sub_queries' = Append(sub_queries, Answered(sub_url, data, TRUE))
  /\ last_sleep' = 1
  /\ UNCHANGED <<start_timestamp, end_timestamp, start_day, end_day, submission_information,
                 submission_data, sub_retry_log, sub_fails>>
  /\ UNCHANGED <<cvars, mvars>>
  /\ Attempt

\* lines 48-60: the lookup of row k raises, after the rows before it were
\* appended
EnrichFail(k) ==
  /\ sub_pc = "enrich"
  /\ sub_fails < MaxFails
  /\ k \in 1..Len(top_df)
  /\ submission_information' =
       KeptOnRetry(submission_information) \o Lookups(top_df, k - 1)
  /\ sub_fails' = sub_fails + 1
  /\ sub_retry_log' = sub_retry_log + 1
  /\ last_sleep' = 10
  /\ UNCHANGED sub_queries
  /\ UNCHANGED <<start_timestamp, end_timestamp, start_day, end_day, sub_pc, date, sub_url, top_df,
                 submission_data, sub_raised>>
  /\ UNCHANGED <<cvars, mvars>>
  /\ Attempt

\* lines 48-77 and 301: every lookup succeeds, the columns are merged and
\* the records are written to submission_data.json
EnrichOk ==
  /\ sub_pc = "enrich"
  /\ LET info == KeptOnRetry(submission_information)
                   \o Lookups(top_df, Len(top_df))
     IN  /\ submission_information' = info
         /\ top_df' = Merge(top_df, info)
         /\ submission_data' = Merge(top_df, info)
  /\ sub_pc' = "returned"
  /\ UNCHANGED <<sub_queries, last_sleep>>
  /\ UNCHANGED <<start_timestamp, end_timestamp, start_day, end_day, date, sub_url, sub_retry_log,
                 sub_raised, sub_fails, sub_queries, last_sleep,
                 start_timestamp, end_timestamp>>
  /\ UNCHANGED <<cvars, mvars>>
  /\ Attempt

SubNext ==
  \/ SubBegin
  \/ DayRequestFail
  \/ \E data \in DayResults(date) : DayAppendFail(data)
  \/ DayEmpty
  \/ \E data \in DayResults(date) : DayOk(data)
  \/ \E k \in 1..(MaxPerDay * MaxDays * (MaxFails + 1)) : EnrichFail(k)
  \/ EnrichOk

SubSpec == SubInit /\ [][SubNext]_vars

\* ------------------------------------------------------------------------
\* Fairness: every request eventually succeeds and the source eventually
\* yields a page that is short, empty or a repetition

TerminatingPage(d) ==
  \/ DfLen(d) <= Cutoff
  \/ pc = "next_request" /\ d = comment_df1

TerminatingResponse ==
  \E request \in Responses :
    /\ HasData(request)
    /\ TerminatingPage(comment_data(request).df)
    /\ (FirstRequestOk(request) \/ NextRequestOk(request))

LiveSpec == Spec /\ WF_vars(TerminatingResponse)

\* ------------------------------------------------------------------------
\* Properties of get_comments

RequestStates == {"first_request", "next_request"}

\* page j of the current row ends the harvesting of that row
Terminating(j) ==
  \/ SumN(fetched[j]) < 9000
  \/ j > 1 /\ fetched[j] = fetched[j - 1]

\* C1: the harvesting of every parent ends, and once a page that is short,
\* empty or equal to the previous page has arrived, no request for that
\* parent is pending any more
C1_NoRequestAfterLastPage ==
  (pc \in RequestStates /\ fetched # << >>) => ~Terminating(Len(fetched))

C1_Termination ==
  /\ []C1_NoRequestAfterLastPage
  /\ (pc \in RequestStates) ~> (pc \in {"row_done", "raised"})

C1_Witness ==
  /\ pc = "row_done"
  /\ row = 2
  /\ Len(fetched) >= 2
  /\ Terminating(Len(fetched))

\* every `before` issued for the row follows from the page before it
BeforeIsPreviousMin ==
  /\ queries # << >> => queries[1] = << >>
  /\ Len(queries) <= Len(fetched) + 1
  /\ \A j \in 2..Len(queries) : queries[j] = <<SeqMin(fetched[j - 1])>>

BeforeNonIncreasing ==
  \A j \in 3..Len(queries) : queries[j][1] <= queries[j - 1][1]

\* no page holds a record newer than the bound of the query that fetched it
SourceHonorsBefore ==
  \A j \in 2..Len(fetched) :
    \A k \in 1..Len(fetched[j]) : fetched[j][k].dt <= queries[j][1]

\* C2 as stated: the first query has no bound, every later bound is the
\* minimum dt of the page before it, and the bounds never increase
C2_CursorMonotonic_Stated == BeforeIsPreviousMin /\ BeforeNonIncreasing

\* C2 amended: the first query has no bound and every later bound is the
\* minimum dt of the page before it; the bounds never increase as long as
\* the source returns no record newer than the bound it was asked with
C2_CursorMonotonic ==
  BeforeIsPreviousMin /\ (SourceHonorsBefore => BeforeNonIncreasing)

C2_Witness ==
  /\ Len(queries) = 3
  /\ Len(fetched[2]) = 2
  /\ SourceHonorsBefore
  /\ queries[3][1] < queries[2][1]

\* pages of the row that are neither empty nor a repetition of the page
\* fetched just before
CountedPages ==
  {j \in 1..Len(fetched) :
     fetched[j] # << >> /\ (j = 1 \/ fetched[j] # fetched[j - 1])}

\* C3: when a parent is finished the shard numbers written for it are
\* exactly 1..K, K the number of non-empty, non-repeated pages fetched
C3_ShardNumbering ==
  pc = "row_done" =>
    {written[j].n : j \in 1..Len(written)} = 1..Cardinality(CountedPages)

\* C4: a failed attempt prints one retry line and changes nothing else, so
\* the lines printed for a fetch equal its failed attempts and the shards
\* and the count are those of a fetch that succeeds at once
C4_RetryIdempotent ==
  [][ /\ retry_log' = fails'
      /\ fails' = fails + 1 =>
           UNCHANGED <<pc, row, url, comment_counter, file_number,
                       comment_df1, dirs, files, raised, written, fetched>>
    ]_vars

C4_Witness ==
  /\ pc = "row_done"
  /\ fails = 2
  /\ retry_log = 2
  /\ Len(written) = 2

\* C5: no body that parses but carries no data list makes get_comments
\* exit with an exception
C5_TransientNeverSurfaces == raised # "TypeError"

\* C8: a follow-up page equal to the previous page is not written, ends
\* the harvesting of the parent with no further request, and the same
\* non-empty page twice in a row leaves exactly one shard of that parent
C8_DuplicatePage ==
  (Len(fetched) >= 2 /\ fetched[Len(fetched)] = fetched[Len(fetched) - 1]) =>
    /\ pc \in {"row_done", "returned"}
    /\ Len(written) = Len(fetched) - 1
    /\ written[Len(written)].data = fetched[Len(fetched) - 1]
    /\ Len(fetched) = 2 =>
         Cardinality({f \in files : f.id = df[row].id}) = 1

C8_Witness ==
  /\ pc = "row_done"
  /\ Len(fetched) = 2
  /\ fetched[1] = fetched[2]
  /\ fetched[1] # << >>

\* k-1 pairwise different pages of at least 9000 records, then a non-empty
\* page of fewer than 9000
MultiPagePattern ==
  /\ fetched # << >>
  /\ \A j \in 1..(Len(fetched) - 1) : SumN(fetched[j]) >= 9000
  /\ \A i, j \in 1..Len(fetched) : i # j => fetched[i] # fetched[j]
  /\ fetched[Len(fetched)] # << >>
  /\ SumN(fetched[Len(fetched)]) < 9000

RECURSIVE SumLens(_)
SumLens(ps) == IF ps = << >> THEN 0 ELSE SumN(Head(ps)) + SumLens(Tail(ps))

\* pairwise different pages of at least 9000 records each, so far
AllFullPages ==
  /\ fetched # << >>
  /\ \A j \in 1..Len(fetched) : SumN(fetched[j]) >= 9000
  /\ \A i, j \in 1..Len(fetched) : i # j => fetched[i] # fetched[j]

\* C9: a page of 9000 records or more is followed by another request; after
\* k-1 such pages and a short one the parent has exactly the shards 1..k,
\* shard j holding the j-th page fetched, and it added the sum of the page
\* sizes to the count
C9_MultiPageHarvest ==
  /\ (AllFullPages /\ raised = "none") => pc = "next_request"
  /\ (pc = "row_done" /\ MultiPagePattern) =>
       /\ Len(written) = Len(fetched)
       /\ \A j \in 1..Len(fetched) :
            /\ written[j].n = j
            /\ written[j].file = [dir |-> df[row].date, id |-> df[row].id,
                                  nn |-> <<0, j>>]
            /\ written[j].data = fetched[j]
            /\ written[j].file \in files
       /\ Cardinality({f \in files : f.id = df[row].id})
            = Len(fetched)
       /\ comment_counter - counted_before = SumLens(fetched)

C9_Witness ==
  /\ pc = "row_done"
  /\ MultiPagePattern
  /\ Len(fetched) = 3
  /\ SumN(fetched[1]) = 9000
  /\ comment_counter - counted_before = 9000 + 9000 + 8999

\* C10: a parent whose first page is empty has no shard written
C10_NoShardForEmptyFirstPage ==
  (fetched # << >> /\ fetched[1] = << >>) =>
    /\ written = << >>
    /\ ~\E f \in files : f.id = df[row].id

\* ------------------------------------------------------------------------
\* Properties of the enrichment

\* C6: every record written by the enrichment carries the score and the
\* upvote ratio reddit holds for its own id; stated for the runs in which
\* no attempt failed, where a retry plays no part in the merge
C6_EnrichmentByIdentity ==
  (sub_pc = "returned" /\ sub_fails = 0) =>
    \A i \in 1..Len(submission_data) :
      /\ submission_data[i].score = 100 + submission_data[i].id
      /\ submission_data[i].upvote_ratio = 50 + submission_data[i].id

\* C7: when the batch has succeeded the collected list holds exactly one
\* entry per input record, in input order, whatever attempts failed before
C7_EnrichmentAllOrNothing ==
  sub_pc = "returned" =>
    /\ Len(submission_information) = Len(top_df)
    /\ \A i \in 1..Len(top_df) :
         submission_information[i] =
           [id |-> top_df[i].id, score |-> 100 + top_df[i].id,
            upvote_ratio |-> 50 + top_df[i].id]

\* ------------------------------------------------------------------------
\* Shard paths and filesystem failures

\* C11: a shard write never targets a path that is already on disk, be it
\* from this run or from before it, and the numbers written for one parent
\* are strictly increasing
C11_NeverOverwrites ==
  [][ Len(written') > Len(written) =>
        LET w == written'[Len(written')] IN
          /\ w.file \notin files
          /\ Len(written) > 0 => w.n > written[Len(written)].n
    ]_vars

\* C12: a filesystem failure ends get_comments with the error at once: it
\* prints no retry line, writes nothing, and no step follows it
C12_FilesystemFailureNotRetried ==
  [][ /\ fs_error = "none"
      /\ fs_error' # "none" =>
           /\ raised' = "OSError"
           /\ pc' = "raised"
           /\ UNCHANGED <<retry_log, files, written, queries, row>>
    ]_vars

C12_Witness ==
  /\ fs_error = "to_csv"
  /\ raised = "OSError"
  /\ Len(fetched) = 2
  /\ Len(written) = 1

\* ------------------------------------------------------------------------
\* Continuation of a parent's harvesting

\* every page fetched for the row so far was written as a shard
LastPagePersisted == Len(written) = Len(fetched)

\* C19: while a parent is harvested without error, a follow-up request is
\* pending exactly when the last page was written and holds 9000 records
\* or more; an empty follow-up page is not written, keeps the shard number
\* and ends the parent
C19_ContinuationRule ==
  (fetched # << >> /\ raised = "none") =>
    /\ pc = "next_request" <=>
         (LastPagePersisted /\ SumN(fetched[Len(fetched)]) >= 9000)
    /\ (Len(fetched) > 1 /\ fetched[Len(fetched)] = << >>) =>
         /\ Len(written) = Len(fetched) - 1
         /\ file_number = written[Len(written)].n
         /\ pc \in {"row_done", "returned"}

\* an empty follow-up page after two full pages
C19_Witness ==
  /\ pc = "row_done"
  /\ raised = "none"
  /\ Len(fetched) = 3
  /\ fetched[3] = << >>
  /\ Len(written) = 2

\* ------------------------------------------------------------------------
\* get_comments against a source that keeps a listing: every search is
\* answered with the newest records, at most `limit` of them, that are
\* older than `before`

\* the comments of a parent for every created_utc, newest first, the
\* records numbered in the order of the listing
ListingSizes == {0, 4000, 6000, Limit}

RECURSIVE Listing(_, _, _)
Listing(sizes, t, first) ==
  IF t = 0 THEN << >>
  ELSE IF sizes[t] = 0 THEN Listing(sizes, t - 1, first)
  ELSE <<[id |-> first, created_utc |-> t, n |-> sizes[t]]>>
         \o Listing(sizes, t - 1, first + sizes[t])

Listings == {Listing(sizes, MaxDt, 1) : sizes \in [1..MaxDt -> ListingSizes]}

\* the records older than the bound of the url
Older(blocks, before) ==
  SelectSeq(blocks, LAMBDA b : before = << >> \/ b.created_utc < before[1])

\* the first k records of a listing
RECURSIVE Newest(_, _)
Newest(blocks, k) ==
  IF blocks = << >> \/ k = 0 THEN << >>
  ELSE IF Head(blocks).n <= k
    THEN <<Head(blocks)>> \o Newest(Tail(blocks), k - Head(blocks).n)
    ELSE <<[Head(blocks) EXCEPT !.n = k]>>

\* the body the source sends for a url
ListingAnswer(u) ==
  [kind |-> "data", data |-> Newest(Older(store, u.before), Limit)]

ListingInit ==
  /\ SubIdle
  /\ MainIdle
  /\ CommentLocals
  /\ df \in Inputs
  /\ pc = "start"
  /\ dirs = {}
  /\ files = {}
  /\ store \in Listings

ListingNext ==
  \/ Begin
  \/ FirstRequestFail
  \/ FirstRequestMkdirFail
  \/ FirstRequestWriteFail(ListingAnswer(url))
  \/ FirstRequestOk(ListingAnswer(url))
  \/ NextRequestFail
  \/ NextRequestWriteFail(ListingAnswer(url))
  \/ NextRequestOk(ListingAnswer(url))
  \/ NextRow

ListingSpec == ListingInit /\ [][ListingNext]_vars

\* the records of block b are all in one written shard
InShard(b) ==
  \E j \in 1..Len(written) : \E k \in 1..Len(written[j].data) :
    LET w == written[j].data[k] IN
      /\ w.dt = b.created_utc
      /\ w.comment_id <= b.id
      /\ w.comment_id + w.n >= b.id + b.n

\* C20: when a parent is finished every record the source holds for it is
\* in at least one shard
C20_NoRecordSkipped ==
  pc = "row_done" => \A i \in 1..Len(store) : InShard(store[i])

\* ------------------------------------------------------------------------
\* The day loop of get_top_submissions

\* the searches whose attempt ran to its end
Completed == SelectSeq(sub_queries, LAMBDA q : q.ok)

\* the days the loop has finished
DaysDone ==
  IF sub_pc = "start" THEN 0
  ELSE IF sub_pc = "day_request" THEN date - start_day
  ELSE end_day - start_day

C15_EmptyDay ==
  [][ ( /\ Len(sub_queries') = Len(sub_queries) + 1
        /\ sub_queries'[Len(sub_queries')].data = << >> ) =>
        /\ sub_queries'[Len(sub_queries')].ok
        /\ UNCHANGED <<top_df, sub_retry_log, sub_fails>>
        /\ IF date + 1 < end_day
             THEN date' = date + 1 /\ sub_pc' = "day_request"
             ELSE sub_pc' \in {"enrich", "raised"}
    ]_vars

\* the first day was empty and the second day is being queried
C15_Witness ==
  /\ sub_pc = "day_request"
  /\ date = start_day + 1
  /\ Len(sub_queries) = 1
  /\ sub_queries[1].data = << >>
  /\ sub_retry_log = 0

\* C16: a search of the day loop that is not the first one is preceded by a
\* delay; the delay after a search that was answered is 1, and the delay
\* of 10 follows only an attempt that failed
C16_Pacing ==
  [][ sub_pc = "day_request" =>
        /\ (Len(sub_queries) + sub_fails > 0) => last_sleep \in {1, 10}
        /\ last_sleep' = 10 => sub_fails' = sub_fails + 1
        /\ sub_fails' = sub_fails => last_sleep' = 1
    ]_vars

\* ------------------------------------------------------------------------
\* get_all_submissions, lines 112-154: the collection loop, up to the call
\* of get_updated_submission_information

\* the submissions the source may return: one for the start of every day
\* from the day before the range to the day after it
AllRecords ==
  {[id |-> d + 1, created_utc |-> StartUtc(d)] : d \in 0..(MaxDays + 2)}

\* data['data'] of an answer that is not empty: one or two submissions,
\* the newer one first
AllResults ==
  {<<r>> : r \in AllRecords} \cup
  {p \in AllRecords \X AllRecords : p[1].created_utc > p[2].created_utc}

\* lines 128-131
AllUrl(after, before) == [after |-> after, before |-> before, limit |-> 100]

\* df['created_utc'].max()
MaxCreated_min(frame) ==
  CHOOSE m \in {frame[i].created_utc : i \in 1..Len(frame)} :
    \A i \in 1..Len(frame) : m <= frame[i].created_utc

MaxCreated(frame) ==
  CHOOSE m \in {frame[i].created_utc : i \in 1..Len(frame)} :
    \A i \in 1..Len(frame) : m >= frame[i].created_utc

AllInit ==
  /\ CommentIdle
  /\ MainIdle
  /\ SubLocals
  /\ start_day = 1
  /\ end_day \in 2..(1 + MaxDays)
  /\ sub_pc = "start"

\* line 127: the head of the inner loop, and lines 149-154 after it
AllLoop(cursor, end, frame) ==
  IF cursor <= end
    THEN /\ sub_pc' = "all_request"
         /\ sub_url' = AllUrl(cursor, end)
         /\ UNCHANGED <<date, sub_raised>>
    ELSE AfterDays(frame)

\* lines 112-127
AllBegin ==
  /\ sub_pc = "start"
  /\ start_timestamp' = StartUtc(start_day)
  /\ end_timestamp' = StartUtc(end_day)
  /\ AllLoop(StartUtc(start_day), StartUtc(end_day), top_df)
  /\ UNCHANGED <<start_day, end_day, top_df, submission_information,
                 submission_data, sub_retry_log, sub_fails, sub_queries,
                 last_sleep>>
  /\ UNCHANGED <<cvars, mvars, budget>>

\* lines 133-135 raise; 151-153
AllRequestFail ==
  /\ sub_pc = "all_request"
  /\ sub_fails < MaxFails
  /\ sub_fails' = sub_fails + 1
  /\ sub_retry_log' = sub_retry_log + 1
  /\ last_sleep' = 10
  /\ UNCHANGED <<start_timestamp, end_timestamp, start_day, end_day, sub_pc,
                 date, sub_url, top_df, submission_information,
                 submission_data, sub_raised, sub_queries>>
  /\ UNCHANGED <<cvars, mvars>>
  /\ Attempt

\* lines 133-143, then bar.update raises; 151-153 and the loop again
AllAppendFail(data) ==
  /\ sub_pc = "all_request"
  /\ sub_fails < MaxFails
  /\ Len(SelectSeq(sub_queries, LAMBDA q : q.data # << >>)) < MaxBatches
  /\ LET frame == Concat(top_df, TempDf(data)) IN
       /\ top_df' = frame
       /\ start_timestamp' = MaxCreated(frame)
       /\ AllLoop(MaxCreated(frame), end_timestamp, frame)
  /\ sub_queries' = Append(sub_queries, Answered(sub_url, data, FALSE))
  /\ sub_fails' = sub_fails + 1
  /\ sub_retry_log' = sub_retry_log + 1
  /\ last_sleep' = 10
  /\ UNCHANGED <<end_timestamp, start_day, end_day, submission_information,
                 submission_data>>
  /\ UNCHANGED <<cvars, mvars>>
  /\ Attempt

\* lines 133-140 and 149-154: no record, break
AllEmpty ==
  /\ sub_pc = "all_request"
  /\ AfterDays(top_df)
  /\ sub_queries' = Append(sub_queries, Answered(sub_url, << >>, TRUE))
  /\ last_sleep' = 0
  /\ UNCHANGED <<start_timestamp, end_timestamp, start_day, end_day, top_df,
                 submission_information, submission_data, sub_retry_log,
                 sub_fails>>
  /\ UNCHANGED <<cvars, mvars>>
  /\ Attempt

\* lines 133-147: the records are appended and the cursor moves to the
\* newest created_utc of the accumulator
AllOk(data) ==
  /\ sub_pc = "all_request"
  /\ Len(SelectSeq(sub_queries, LAMBDA q : q.data # << >>)) < MaxBatches
  /\ LET frame == Concat(top_df, TempDf(data)) IN
       /\ top_df' = frame
       /\ start_timestamp' = MaxCreated(frame)
       /\ AllLoop(MaxCreated(frame), end_timestamp, frame)
  /\ sub_queries' = Append(sub_queries, Answered(sub_url, data, TRUE))
  /\ last_sleep' = 1
  /\ UNCHANGED <<end_timestamp, start_day, end_day, submission_information,
                 submission_data, sub_retry_log, sub_fails>>
  /\ UNCHANGED <<cvars, mvars>>
  /\ Attempt

AllNext ==
  \/ AllBegin
  \/ AllRequestFail
  \/ \E data \in AllResults : AllAppendFail(data)
  \/ AllEmpty
  \/ \E data \in AllResults : AllOk(data)

AllSpec == AllInit /\ [][AllNext]_vars

\* the `after` of every search answered so far, and of the one pending
Afters ==
  [i \in 1..Len(sub_queries) |-> sub_queries[i].url.after]
    \o (IF sub_pc = "all_request" THEN <<sub_url.after>> ELSE << >>)

\* the created_utc of the records the first k answers held
StampsUpTo(k) ==
  UNION {{sub_queries[i].data[j].created_utc :
            j \in 1..Len(sub_queries[i].data)} : i \in 1..k}

\* the records of all answers, in the order of the answers
RECURSIVE Accumulated(_)
Accumulated(k) ==
  IF k = 0 THEN << >>
  ELSE Accumulated(k - 1) \o
       [j \in 1..Len(sub_queries[k].data) |-> sub_queries[k].data[j].id]

\* the cursor rule of get_all_submissions without the ordering of the
\* `after` values
CursorRule ==
  /\ Afters # << >> => Afters[1] = start_day * 86400
  /\ \A i \in 2..Len(Afters) :
       /\ StampsUpTo(i - 1) # {}
       /\ Afters[i] \in StampsUpTo(i - 1)
       /\ \A t \in StampsUpTo(i - 1) : t <= Afters[i]
  /\ \A i \in 1..Len(sub_queries) :
       sub_queries[i].data = << >> =>
         i = Len(sub_queries) /\ sub_pc # "all_request"
  /\ [j \in 1..Len(top_df) |-> top_df[j].id] = Accumulated(Len(sub_queries))

\* no answer holds a record as old as the `after` of its search or older
SourceHonorsAfter ==
  \A i \in 1..Len(sub_queries) : \A j \in 1..Len(sub_queries[i].data) :
    sub_queries[i].data[j].created_utc > sub_queries[i].url.after

\* C18 as stated: the first search starts at `start`, every later one at
\* the newest created_utc accumulated, the `after` values never decrease,
\* the first empty answer ends the collection, and the accumulator holds
\* the records of every answer, whatever attempts failed
C18_AllCursor_Stated ==
  /\ CursorRule
  /\ \A i, j \in 1..Len(Afters) : i < j => Afters[i] <= Afters[j]

\* C18, amended: the `after` values never decrease from the second search
\* on, and from the first when the source honours `after`
C18_AllCursor ==
  /\ CursorRule
  /\ \A i, j \in 2..Len(Afters) : i < j => Afters[i] <= Afters[j]
  /\ SourceHonorsAfter =>
       \A i, j \in 1..Len(Afters) : i < j => Afters[i] <= Afters[j]

\* two answers with records, a failed attempt, and a third search pending
C18_Witness ==
  /\ sub_pc = "all_request"
  /\ Len(sub_queries) = 2
  /\ sub_fails > 0
  /\ SourceHonorsAfter
  /\ Afters[1] < Afters[2]
  /\ Afters[2] < Afters[3]

\* ------------------------------------------------------------------------
\* __main__ and main(): the date guard, get_top_submissions, get_comments

MainInit ==
  /\ CommentIdle
  /\ SubLocals
  /\ sub_pc = "idle"
  /\ start_day \in 1..2
  /\ end_day \in 1..(1 + MaxDays)
  /\ main_pc = "start"
  /\ main_out = "none"
  /\ budget = MaxRequests

\* main.py lines 85-99 and 49-54
MainGuard_inclusive ==
  /\ main_pc = "start"
  /\ IF start_day <= end_day
       THEN /\ main_pc' = "get_top_submissions"
            /\ sub_pc' = "start"
            /\ UNCHANGED main_out
       ELSE /\ main_pc' = "rejected"
            /\ main_out' = "The end date must be after the start date."
            /\ UNCHANGED sub_pc
  /\ UNCHANGED <<start_day, end_day, date, sub_url, top_df,
                 submission_information, submission_data, sub_retry_log,
                 sub_raised, sub_fails, sub_queries, last_sleep,
                 start_timestamp, end_timestamp>>
  /\ UNCHANGED <<cvars, budget>>

MainGuard ==
  /\ main_pc = "start"
  /\ IF start_day < end_day
       THEN /\ main_pc' = "get_top_submissions"
            /\ sub_pc' = "start"
            /\ UNCHANGED main_out
       ELSE /\ main_pc' = "rejected"
            /\ main_out' = "The end date must be after the start date."
            /\ UNCHANGED sub_pc
  /\ UNCHANGED <<start_day, end_day, date, sub_url, top_df,
                 submission_information, submission_data, sub_retry_log,
                 sub_raised, sub_fails, sub_queries, last_sleep,
                 start_timestamp, end_timestamp>>
  /\ UNCHANGED <<cvars, budget>>

\* submission_scraper.py lines 297 and 302: df[['id', 'title', 'date']]
Returned(frame) ==
  [i \in 1..Len(frame) |->
     [id |-> frame[i].id, date |-> frame[i].created_utc \div DaySeconds]]

\* main.py lines 54-64: get_top_submissions has returned, get_comments is
\* called with its result
CallGetComments_early ==
  /\ main_pc = "get_top_submissions"
  /\ sub_pc = "enrich"
  /\ main_pc' = "get_comments"
  /\ df' = Returned(top_df)
  /\ pc' = "start"
  /\ UNCHANGED <<row, url, comment_counter, file_number, comment_df1, dirs,
                 files, retry_log, raised, fails, queries, fetched, written,
                 counted_before, fs_error, store>>
  /\ UNCHANGED <<svars, main_out, budget>>

CallGetComments ==
  /\ main_pc = "get_top_submissions"
  /\ sub_pc = "returned"
  /\ main_pc' = "get_comments"
  /\ df' = Returned(top_df)
  /\ pc' = "start"
  /\ UNCHANGED <<row, url, comment_counter, file_number, comment_df1, dirs,
                 files, retry_log, raised, fails, queries, fetched, written,
                 counted_before, fs_error, store>>
  /\ UNCHANGED <<svars, main_out, budget>>

\* main.py lines 64-68 and 93-97
MainDone ==
  /\ main_pc = "get_comments"
  /\ pc = "returned"
  /\ main_pc' = "done"
  /\ main_out' = "Total comments scraped"
  /\ UNCHANGED <<cvars, svars, budget>>

MainNext ==
  \/ MainGuard
  \/ SubBegin
  \/ DayRequestFail
  \/ \E data \in DayResults(date) : DayAppendFail(data)
  \/ DayEmpty
  \/ \E data \in DayResults(date) : DayOk(data)
  \/ \E k \in 1..Len(top_df) : EnrichFail(k)
  \/ EnrichOk
  \/ CallGetComments
  \/ Begin
  \/ FirstRequestFail
  \/ FirstRequestMkdirFail
  \/ \E request \in Responses : FirstRequestNoData(request)
  \/ \E request \in Responses : FirstRequestWriteFail(request)
  \/ \E request \in Responses : FirstRequestOk(request)
  \/ NextRequestFail
  \/ \E request \in Responses : NextRequestNoData(request)
  \/ \E request \in Responses : NextRequestWriteFail(request)
  \/ \E request \in Responses : NextRequestOk(request)
  \/ NextRow
  \/ MainDone

MainSpec == MainInit /\ [][MainNext]_vars

\* C13: past the guard, a range with end <= start has printed the
\* rejection message and has spent no attempt, built no url, written no
\* file and entered neither function; a range with start < end has entered
\* get_top_submissions and is never rejected
C13_DateGuard ==
  main_pc # "start" =>
    IF end_day <= start_day
      THEN /\ main_pc = "rejected"
           /\ main_out = "The end date must be after the start date."
           /\ budget = MaxRequests
           /\ sub_pc = "idle" /\ pc = "idle"
           /\ sub_url = << >> /\ sub_queries = << >> /\ queries = << >>
           /\ dirs = {} /\ files = {} /\ submission_data = << >>
      ELSE /\ main_pc # "rejected"
           /\ main_out # "The end date must be after the start date."
           /\ sub_pc # "idle"

\* the range of no days is rejected
C13_Witness ==
  /\ main_pc = "rejected"
  /\ start_day = end_day

\* C17: no url for comments is built before get_top_submissions has queried
\* every day, enriched the records and written them, which it does once;
\* get_comments takes the rows of the result in their order, one at a
\* time, every url and shard being for the row at hand; and no search for
\* submissions is pending while a search for comments is
C17_RunOrdering ==
  [][ /\ pc' # "idle" =>
           /\ sub_pc' = "returned"
           /\ Len(SelectSeq(sub_queries', LAMBDA q : q.ok))
                = end_day' - start_day'
           /\ submission_data' # << >>
           /\ df' = [i \in 1..Len(top_df') |->
                       [id |-> top_df'[i].id,
                        date |-> top_df'[i].created_utc \div 86400]]
      /\ submission_data' # submission_data =>
           submission_data = << >> /\ pc = "idle" /\ queries = << >>
      /\ row' # row => row' = row + 1 /\ pc \in {"start", "row_done"}
      /\ pc' = "returned" => row' = Len(df')
      /\ pc' \in {"first_request", "next_request"} =>
           url'.link_id = df'[row'].id
      /\ \A j \in 1..Len(written') : written'[j].file.id = df'[row'].id
    ]_vars

\* a run over one day with two submissions that came to its end
C17_Witness ==
  /\ main_pc = "done"
  /\ Len(df) = 2
  /\ row = 2
  /\ files # {}

\* ------------------------------------------------------------------------
\* Retried days, the returned total, and a range without submissions

\* C21: no submission id occurs twice in the accumulator of
\* get_top_submissions, whatever attempts failed
C21_DayAppendedOnce ==
  \A i, j \in 1..Len(top_df) : i < j => top_df[i].id # top_df[j].id

\* the records of the shards written for the row at hand
RECURSIVE RecordsWritten(_)
RecordsWritten(k) ==
  IF k = 0 THEN 0 ELSE RecordsWritten(k - 1) + SumN(written[k].data)

\* C22: when a parent is finished without error the counter has grown by
\* the number of records written to its shards, so the total returned is
\* the number of records written during the run
C22_TotalIsRecordsWritten ==
  (pc = "row_done" /\ raised = "none") =>
    comment_counter - counted_before = RecordsWritten(Len(written))

\* C23: a run over a valid range in which no day has a record raises no
\* error; it ends with an empty result, no url for comments, no shard and
\* a total of 0
C23_EmptyRangeCompletes ==
  ( /\ main_pc \notin {"start", "rejected"}
    /\ \A i \in 1..Len(sub_queries) : sub_queries[i].data = << >> ) =>
      /\ sub_raised = "none"
      /\ main_pc = "done" =>
           /\ df = << >> /\ queries = << >> /\ files = {}
           /\ comment_counter = 0

====
